---- MODULE Spec2Model ----
(***************************************************************************)
(* The BitMEX feed of cryptofeed: the order book engine (Bitmex._book),    *)
(* its reset (Bitmex._reset), the dispatch of the other messages           *)
(* (Bitmex.message_handler) and the (re)subscription (Bitmex.subscribe);   *)
(* and the normalization registry of cryptofeed.standards: the pair tables *)
(* and the channel table. One feed session; messages are handled one at a  *)
(* time, in arrival order.                                                 *)
(***************************************************************************)
EXTENDS Integers, Sequences, FiniteSets, TLC

\* ---------------------------------------------------------------- bounds
\* most entries in the data array of one message
MaxData == 2
\* most book messages handled between two (re)subscriptions
MaxMsgs == 2
\* most single-entry book messages handled between two (re)subscriptions
MaxSingles == 3
\* most characters of a pair string handed to the registry
MaxLen == 3
\* most lookups of the registry between two loads
MaxCalls == 1

\* ------------------------------------------------------------- constants
BID == "bid"
ASK == "ask"
L2_BOOK == "l2_book"
\* Python's None: the value of `pair` before the first data entry is read
NoPair == "None"

\* self.pairs and self.channels of the session (no per-channel config)
Pairs == <<"XBTUSD", "ETHUSD">>
Channels == <<"orderBookL2", "trade">>
\* self.config when no per-channel pairs were given: `not self.config` holds
NoConfig == <<>>

\* exchanges and channels (cryptofeed.defines)
BITMEX == "BITMEX"
DERIBIT == "DERIBIT"
KRAKEN_FUTURES == "KRAKEN_FUTURES"
BITFINEX == "BITFINEX"
POLONIEX == "POLONIEX"
COINBASE == "COINBASE"
L3_BOOK == "l3_book"
TRADES == "trades"
TICKER == "ticker"
VOLUME == "volume"
FUNDING == "funding"
INSTRUMENT == "instrument"
UNSUPPORTED == "unsupported"

\* the rows of _feed_to_exchange_map for these channels, and of each row
\* the entries of these exchanges (Poloniex's numeric ids as text)
FeedToExchangeMap ==
    (L2_BOOK :> ((BITFINEX :> "book-P0-F0-100") @@ (POLONIEX :> L2_BOOK)
                 @@ (COINBASE :> "level2") @@ (BITMEX :> "orderBookL2")))
    @@ (L3_BOOK :> ((BITFINEX :> "book-R0-F0-100") @@ (COINBASE :> "full")
                    @@ (BITMEX :> UNSUPPORTED) @@ (POLONIEX :> UNSUPPORTED)))
    @@ (TRADES :> ((POLONIEX :> TRADES) @@ (BITFINEX :> "trades")
                   @@ (COINBASE :> "matches") @@ (BITMEX :> "trade")))
    @@ (TICKER :> ((POLONIEX :> "1002") @@ (BITFINEX :> "ticker")
                   @@ (COINBASE :> "ticker") @@ (BITMEX :> UNSUPPORTED)))
    @@ (VOLUME :> (POLONIEX :> "1003"))
    @@ (FUNDING :> ((BITMEX :> "funding") @@ (BITFINEX :> "trades")))
    @@ (INSTRUMENT :> (BITMEX :> "instrument"))

\* ---------------------------------------------------------------- inputs
\* a pair string is the sequence of its characters
Chars == {"f", "B", "-"}
Strings == UNION {[1..n -> Chars] : n \in 0..MaxLen}
Exchanges == {BITMEX, BITFINEX, POLONIEX, COINBASE}
\* the canonical pairs gen_pairs produces (BASE-QUOTE) and the native spellings
CanonicalPairs == {<<"B", "-", "B">>, <<"f", "-", "B">>}
NativePairs == {<<"B", "B">>, <<"f", "B">>}
\* what gen_pairs may return for an exchange: canonical -> native, one
\* native spelling per canonical pair, as the items in dictionary order
Mappings ==
    {m \in UNION {[1..n -> CanonicalPairs \X NativePairs] : n \in 0..2} :
        \A i, j \in DOMAIN m : (m[i][1] = m[j][1] \/ m[i][2] = m[j][2]) => i = j}
\* a feed handed to feed_to_exchange: a channel name or, for the
\* channel-per-pair dialect, a pair string
Feeds ==
    [kind : {"channel"}, name : DOMAIN FeedToExchangeMap]
        \cup [kind : {"pair"}, name : Strings]
Symbols == {"XBTUSD", "ETHUSD"}
SideTags == {"Buy", "Sell"}
Ids == {1, 2}
Prices == {100, 101}
\* the size of an inserted level, and the new size an update may carry
Sizes == {5}
UpdateSizes == {0, 3, 5}
\* "amend" stands for every action string the engine does not know
BookActions == {"partial", "insert", "update", "delete", "amend"}

Sides == {BID, ASK}

Range(s) == {s[i] : i \in DOMAIN s}

\* the lists without repetition over a set of at most two elements
Lists(S) == {<<>>} \cup {<<x>> : x \in S} \cup {t \in S \X S : t[1] # t[2]}

\* the per-channel configurations: channel -> list of pairs, in key order
Configs ==
    {cfg \in UNION {[1..n -> [channel : Range(Channels), pairs : Lists(Symbols)]] : n \in 0..Len(Channels)} :
        \A i, j \in DOMAIN cfg : cfg[i].channel = cfg[j].channel => i = j}

\* the data entries of a well-formed message: price and size for
\* partial/insert, size only for update, neither for delete
EntriesFor(action) ==
    IF action \in {"partial", "insert"}
    THEN [symbol : Symbols, side : SideTags, id : Ids, price : Prices, size : Sizes]
    ELSE IF action = "update"
    THEN [symbol : Symbols, side : SideTags, id : Ids, size : UpdateSizes]
    ELSE [symbol : Symbols, side : SideTags, id : Ids]

DataFor(action) ==
    UNION {[1..k -> EntriesFor(action)] : k \in 0..MaxData}

\* the fields the loop body of an action reads from a data entry
Required(action) ==
    IF action \in {"partial", "insert"} THEN {"side", "price", "symbol", "size", "id"}
    ELSE IF action = "update" THEN {"side", "symbol", "size", "id"}
    ELSE {"symbol", "side", "id"}

\* an entry without field f
Drop(e, f) == [x \in (DOMAIN e) \ {f} |-> e[x]]

Entry0 == [symbol |-> "XBTUSD", side |-> "Buy", id |-> 1, price |-> 100, size |-> 5]

\* the entries that lack one field their action requires
MalformedEntriesFor(action) ==
    {[x \in Required(action) \ {f} |-> Entry0[x]] : f \in Required(action)}

\* data arrays whose last entry is malformed, after well-formed ones
MalformedDataFor(action) ==
    UNION {{Append(d, m) : d \in [1..k -> EntriesFor(action)],
                           m \in MalformedEntriesFor(action)} : k \in 0..(MaxData - 1)}

VARIABLES
    partial_received,   \* self.partial_received
    l2_book,            \* self.l2_book[pair][side]: price -> size
    order_id,           \* self.order_id[pair][side]: order id -> price
    callbacks,          \* the calls of book_callback made by the last handler
    sent,               \* the args of the last subscribe request sent
    last,               \* the last operation: its message, outcome and the state before it
    accepted,           \* book messages that passed the partial gate since the last reset (2 = two or more)
    received,           \* book messages handled since the last reset
    config,             \* self.config: channel -> pairs, in the order given; <<>> when there is none
    pairs,              \* self.pairs
    channels,           \* self.channels
    partials,           \* the pairs named by the partials handled since the last reset
    replica,            \* the book of a consumer that applies every emitted delta
    std_trading_pairs,  \* _std_trading_pairs: canonical pair -> exchange -> native pair
    exchange_to_std,    \* _exchange_to_std: native pair -> canonical pair
    loaded,             \* the exchanges load_exchange_pair_mapping was called for
    reg                 \* the last call of the registry, how it ended, and the lookups since the last load

regvars == <<std_trading_pairs, exchange_to_std, loaded, reg>>

vars == <<partial_received, l2_book, order_id, callbacks, sent, last, accepted, received,
          config, pairs, channels, partials, replica, regvars>>

\* ------------------------------------------------------------ dictionaries
\* d[k] = v
Put(d, k, v) == [x \in (DOMAIN d) \cup {k} |-> IF x = k THEN v ELSE d[x]]
\* del d[k]
Remove(d, k) == [x \in (DOMAIN d) \ {k} |-> d[x]]
EmptyDict == [x \in {} |-> 0]

\* ---------------------------------------------------------------- registry
DynamicExchanges == {BITMEX, DERIBIT, KRAKEN_FUTURES}

Return(value) == [outcome |-> "return", value |-> value]
\* return None
ReturnNone == [outcome |-> "none", value |-> <<>>]
Raise(exception) == [outcome |-> exception, value |-> <<>>]

\* for std, exch in mapping.items(): the two tables after the items from i on
RECURSIVE LoadItems(_, _, _, _, _)
LoadItems(std, rev, exchange, mapping, i) ==
    IF i > Len(mapping) THEN [std |-> std, rev |-> rev]
    ELSE LET s == mapping[i][1]
             exch == mapping[i][2]
         IN  LoadItems(IF s \in DOMAIN std
                       THEN [std EXCEPT ![s] = Put(@, exchange, exch)]
                       ELSE Put(std, s, Put(EmptyDict, exchange, exch)),
                       Put(rev, exch, s), exchange, mapping, i + 1)

LoadExchangePairMapping(std, rev, exchange, mapping) ==
    IF exchange \in DynamicExchanges THEN [std |-> std, rev |-> rev]
    ELSE LoadItems(std, rev, exchange, mapping, 1)

\* a translation that hands out the funding symbol for every exchange
PairStdToExchangeAnyFunding(std, pair, exchange) ==
    IF exchange \in DynamicExchanges THEN Return(pair)
    ELSE IF pair \in DOMAIN std
    THEN IF exchange \in DOMAIN std[pair] THEN Return(std[pair][exchange])
         ELSE Raise("UnsupportedTradingPair")
    ELSE IF "-" \notin Range(pair) THEN Return(<<"f">> \o pair)
    ELSE Raise("UnsupportedTradingPair")

PairStdToExchange(std, pair, exchange) ==
    IF exchange \in DynamicExchanges THEN Return(pair)
    ELSE IF pair \in DOMAIN std
    THEN IF exchange \in DOMAIN std[pair] THEN Return(std[pair][exchange])
         ELSE Raise("UnsupportedTradingPair")
    ELSE IF exchange = BITFINEX /\ "-" \notin Range(pair) THEN Return(<<"f">> \o pair)
    ELSE Raise("UnsupportedTradingPair")

\* pair[0] of the empty string is an IndexError
PairExchangeToStd(rev, pair) ==
    IF pair \in DOMAIN rev THEN Return(rev[pair])
    ELSE IF pair = <<>> THEN Raise("IndexError")
    ELSE IF pair[1] = "f" THEN Return(Tail(pair))
    ELSE ReturnNone

InFeedMap(feed) == feed.kind = "channel" /\ feed.name \in DOMAIN FeedToExchangeMap

\* a translation that hands the table entry out unchecked
FeedToExchangeUnchecked(std, exchange, feed) ==
    IF exchange = POLONIEX /\ ~InFeedMap(feed)
    THEN PairStdToExchange(std, feed.name, POLONIEX)
    ELSE IF ~InFeedMap(feed) THEN Raise("KeyError")
    ELSE IF exchange \notin DOMAIN FeedToExchangeMap[feed.name] THEN Raise("KeyError")
    ELSE Return(FeedToExchangeMap[feed.name][exchange])

FeedToExchange(std, exchange, feed) ==
    IF exchange = POLONIEX /\ ~InFeedMap(feed)
    THEN PairStdToExchange(std, feed.name, POLONIEX)
    ELSE IF ~InFeedMap(feed) THEN Raise("KeyError")
    ELSE IF exchange \notin DOMAIN FeedToExchangeMap[feed.name] THEN Raise("KeyError")
    ELSE LET ret == FeedToExchangeMap[feed.name][exchange]
         IN  IF ret = UNSUPPORTED THEN Raise("UnsupportedDataFeed")
             ELSE Return(ret)

\* ------------------------------------------------------------------ _reset
\* {BID: sd(), ASK: sd()} for every pair of self.pairs
ResetBook == [p \in Range(pairs) |-> [s \in Sides |-> EmptyDict]]
\* defaultdict(dict) for every pair: a side that was never written reads as {}
ResetOrderId == [p \in Range(pairs) |-> [s \in Sides |-> EmptyDict]]

\* a reset that forgets to clear the flag
ResetKeepsPartial(partial, book, index) ==
    [partial |-> partial, book |-> ResetBook, index |-> ResetOrderId]

\* the state _reset leaves, whatever it was
Reset(partial, book, index) ==
    [partial |-> FALSE, book |-> ResetBook, index |-> ResetOrderId]

\* ------------------------------------------------------------------- _book
EmptyDelta == [s \in Sides |-> <<>>]

SideOf(data) == IF data.side = "Buy" THEN BID ELSE ASK

\* a gate that marks the session open on any first message, without the early return
GateNoReturn(partial, action) ==
    IF ~partial
    THEN [ret |-> FALSE, partial |-> TRUE, forced |-> TRUE]
    ELSE [ret |-> FALSE, partial |-> partial, forced |-> FALSE]

\* a gate that forces every partial, not only the first accepted message
GateForcedOnPartial(partial, action) ==
    IF ~partial
    THEN IF action # "partial"
         THEN [ret |-> TRUE, partial |-> partial, forced |-> FALSE]
         ELSE [ret |-> FALSE, partial |-> TRUE, forced |-> TRUE]
    ELSE [ret |-> FALSE, partial |-> partial, forced |-> action = "partial"]

\* a gate that lets nothing but partials through
GatePartialsOnly(partial, action) ==
    IF action # "partial"
    THEN [ret |-> TRUE, partial |-> partial, forced |-> FALSE]
    ELSE [ret |-> FALSE, partial |-> TRUE, forced |-> ~partial]

\* the partial gate: [ret |-> the handler returns, partial |-> the flag, forced |-> the flag of the emission]
Gate(partial, action) ==
    IF ~partial
    THEN IF action # "partial"
         THEN [ret |-> TRUE, partial |-> partial, forced |-> FALSE]
         ELSE [ret |-> FALSE, partial |-> TRUE, forced |-> TRUE]
    ELSE [ret |-> FALSE, partial |-> partial, forced |-> FALSE]

\* one pass of the loop body of partial and insert; st is the handler's
\* view: the books, the index, the local delta and pair, and whether a
\* KeyError was raised
InsertEntry(st, data) ==
    LET side == SideOf(data)
        price == data.price
        pair == data.symbol
        size == data.size
        oid == data.id
    IN  IF pair \notin DOMAIN st.book
        THEN [st EXCEPT !.raised = TRUE]
        ELSE [st EXCEPT !.pair = pair,
                        !.book[pair][side] = Put(@, price, size),
                        !.index[pair][side] = Put(@, oid, price),
                        !.delta[side] = Append(@, <<price, size>>),
                        !.applied = @ + 1]

\* an update that writes the size under the order id, not under the indexed price
UpdateEntryByOrderId(st, data) ==
    LET side == SideOf(data)
        pair == data.symbol
        update_size == data.size
        oid == data.id
    IN  IF pair \notin DOMAIN st.index
        THEN [st EXCEPT !.raised = TRUE]
        ELSE IF oid \notin DOMAIN st.index[pair][side]
        THEN [st EXCEPT !.pair = pair, !.raised = TRUE]
        ELSE LET price == st.index[pair][side][oid]
             IN  [st EXCEPT !.pair = pair,
                            !.book[pair][side] = Put(@, oid, update_size),
                            !.index[pair][side] = Put(@, oid, price),
                            !.delta[side] = Append(@, <<price, update_size>>),
                            !.applied = @ + 1]

\* one pass of the loop body of update: the price comes from the index
UpdateEntry(st, data) ==
    LET side == SideOf(data)
        pair == data.symbol
        update_size == data.size
        oid == data.id
    IN  IF pair \notin DOMAIN st.index
        THEN [st EXCEPT !.raised = TRUE]
        ELSE IF oid \notin DOMAIN st.index[pair][side]
        THEN [st EXCEPT !.pair = pair, !.raised = TRUE]
        ELSE LET price == st.index[pair][side][oid]
             IN  [st EXCEPT !.pair = pair,
                            !.book[pair][side] = Put(@, price, update_size),
                            !.index[pair][side] = Put(@, oid, price),
                            !.delta[side] = Append(@, <<price, update_size>>),
                            !.applied = @ + 1]

\* one pass of the loop body of delete: the index entry goes first, then the level
DeleteEntry(st, data) ==
    LET pair == data.symbol
        side == SideOf(data)
        oid == data.id
    IN  IF pair \notin DOMAIN st.index
        THEN [st EXCEPT !.raised = TRUE]
        ELSE IF oid \notin DOMAIN st.index[pair][side]
        THEN [st EXCEPT !.pair = pair, !.raised = TRUE]
        ELSE LET delete_price == st.index[pair][side][oid]
                 st1 == [st EXCEPT !.pair = pair,
                                   !.index[pair][side] = Remove(@, oid)]
             IN  IF delete_price \notin DOMAIN st1.book[pair][side]
                 THEN [st1 EXCEPT !.raised = TRUE]
                 ELSE [st1 EXCEPT !.book[pair][side] = Remove(@, delete_price),
                                  !.delta[side] = Append(@, <<delete_price, 0>>),
                                  !.applied = @ + 1]

\* the loop body of the action; reading a field the entry lacks is a
\* KeyError, and every read of a body comes before its first write
ApplyEntry(action, st, data) ==
    IF ~(Required(action) \subseteq DOMAIN data) THEN [st EXCEPT !.raised = TRUE]
    ELSE IF action \in {"partial", "insert"} THEN InsertEntry(st, data)
    ELSE IF action = "update" THEN UpdateEntry(st, data)
    ELSE DeleteEntry(st, data)

\* for data in msg['data']: ... , left at the first KeyError
RECURSIVE Loop(_, _, _, _)
Loop(action, data, i, st) ==
    IF i > Len(data) \/ st.raised
    THEN st
    ELSE Loop(action, data, i + 1, ApplyEntry(action, st, data[i]))

KnownAction(action) == action \in {"partial", "insert", "update", "delete"}

\* the whole handler on the state (partial, book, index): the state it
\* leaves, how it ended and the calls of book_callback it made
BookHandler(partial, book, index, msg, timestamp) ==
    LET g == Gate(partial, msg.action)
        st0 == [book |-> book, index |-> index, delta |-> EmptyDelta,
                pair |-> NoPair, raised |-> FALSE, applied |-> 0]
    IN  IF g.ret
        THEN [partial |-> g.partial, book |-> book, index |-> index,
              result |-> "discarded", applied |-> 0, calls |-> <<>>]
        ELSE IF ~KnownAction(msg.action)
        THEN [partial |-> g.partial, book |-> book, index |-> index,
              result |-> "unexpected", applied |-> 0, calls |-> <<>>]
        ELSE LET st == Loop(msg.action, msg.data, 1, st0)
             IN  IF st.raised
                 THEN [partial |-> g.partial, book |-> st.book, index |-> st.index,
                       result |-> "raised", applied |-> st.applied, calls |-> <<>>]
                 ELSE [partial |-> g.partial, book |-> st.book, index |-> st.index,
                       result |-> "emitted", applied |-> st.applied,
                       calls |-> <<[pair |-> st.pair, channel |-> L2_BOOK,
                                    forced |-> g.forced, delta |-> st.delta,
                                    timestamp |-> timestamp]>>]

\* ---------------------------------------------------------- message_handler
\* decoded messages that are not of the tables trade, orderBookL2, funding
\* or instrument
OtherMsgs ==
    { [info |-> "Welcome to the BitMEX Realtime API."],
      [info |-> "Welcome", table |-> "orderBookL2"],
      [subscribe |-> "orderBookL2:XBTUSD", success |-> TRUE],
      [subscribe |-> "orderBookL2:XBTUSD", success |-> FALSE],
      [error |-> "Unknown table: orderBook"],
      [table |-> "liquidation"] }

\* the branch message_handler takes, by the keys of the message
Route(msg) ==
    IF "info" \in DOMAIN msg THEN "info"
    ELSE IF "subscribe" \in DOMAIN msg
    THEN (IF ~msg.success THEN "subscribe_failed" ELSE "subscribe_ok")
    ELSE IF "error" \in DOMAIN msg THEN "error"
    ELSE IF msg.table = "trade" THEN "trade"
    ELSE IF msg.table = "orderBookL2" THEN "book"
    ELSE IF msg.table = "funding" THEN "funding"
    ELSE IF msg.table = "instrument" THEN "instrument"
    ELSE "unhandled"

\* a handler that takes a failed subscription for a lost session and resets
LoggedResetsOnFailure(partial, book, index, msg) ==
    IF Route(msg) = "subscribe_failed"
    THEN [partial |-> FALSE, book |-> ResetBook, index |-> ResetOrderId,
          result |-> "logged", calls |-> <<>>]
    ELSE [partial |-> partial, book |-> book, index |-> index,
          result |-> "logged", calls |-> <<>>]

\* the branches that only log: info, subscribe, error and an unhandled table
Logged(partial, book, index, msg) ==
    [partial |-> partial, book |-> book, index |-> index,
     result |-> "logged", calls |-> <<>>]

\* ---------------------------------------------------------------- subscribe
\* chans: one "<channel>:<pair>" token per channel and pair, channels outermost
\* (a token is kept as the tuple <<channel, pair>> that "{}:{}" joins)
PairTokens(channel, ps) == [i \in 1..Len(ps) |-> <<channel, ps[i]>>]

\* the appends of the inner loops, one after the other
RECURSIVE Concat(_)
Concat(ss) == IF ss = <<>> THEN <<>> ELSE Head(ss) \o Concat(Tail(ss))

\* a token list built from self.channels and self.pairs whatever the config
TokensIgnoreConfig ==
    Concat([i \in 1..Len(channels) |-> PairTokens(channels[i], pairs)])

Tokens ==
    IF config = NoConfig
    THEN Concat([i \in 1..Len(channels) |-> PairTokens(channels[i], pairs)])
    ELSE Concat([i \in 1..Len(config) |-> PairTokens(config[i].channel, config[i].pairs)])

NoMsg == [action |-> "none", data |-> <<>>]

\* whether any book side or index of the state holds an entry
Dirty(book, index) ==
    \E p \in DOMAIN book : \E s \in Sides :
        book[p][s] # EmptyDict \/ index[p][s] # EmptyDict

\* ---------------------------------------------------------------- observers
\* the pairs the entries of a data array name
Named(data) == {data[i].symbol : i \in {j \in DOMAIN data : "symbol" \in DOMAIN data[j]}}

\* a consumer's side after the levels of a delta, in order: a level is set
\* to its size, and removed when the size is zero
RECURSIVE ConsumeSide(_, _)
ConsumeSide(levels, delta) ==
    IF delta = <<>> THEN levels
    ELSE LET price == Head(delta)[1]
             size == Head(delta)[2]
         IN  ConsumeSide(IF size = 0 THEN Remove(levels, price)
                         ELSE Put(levels, price, size), Tail(delta))

\* the consumer's books after the calls of book_callback of one handler
Consume(books, calls) ==
    IF calls = <<>> \/ calls[1].pair \notin DOMAIN books THEN books
    ELSE [books EXCEPT ![calls[1].pair] =
             [s \in Sides |-> ConsumeSide(@[s], calls[1].delta[s])]]

\* the engine's variables
engine == <<partial_received, l2_book, order_id, callbacks, sent, last, accepted,
            received, config, pairs, channels, partials, replica>>

NoFeed == [kind |-> "none", name |-> <<>>]
NoCall == [fn |-> "none", pair |-> <<>>, exchange |-> "none", feed |-> NoFeed,
           outcome |-> "none", value |-> <<>>, n |-> 0]

\* ------------------------------------------------------------------ machine
\* [pair for inner in config.values() for pair in inner]
Flatten(cfg) == Concat([i \in 1..Len(cfg) |-> cfg[i].pairs])

\* the session after construction with the given config, pairs and
\* channels: __init__ ends with _reset
Construct(cfg, ps, chs) ==
    /\ config = cfg
    /\ pairs = (IF cfg # NoConfig THEN Flatten(cfg) ELSE ps)
    /\ channels = chs
    /\ partials = {}
    /\ replica = ResetBook
    /\ \E r \in {Reset(FALSE, ResetBook, ResetOrderId)} :
          /\ partial_received = r.partial
          /\ l2_book = r.book
          /\ order_id = r.index
    /\ callbacks = <<>>
    /\ sent = <<>>
    /\ last = [op |-> "init", msg |-> NoMsg, timestamp |-> 0, result |-> "none",
               applied |-> 0, partial |-> FALSE, book |-> ResetBook,
               index |-> ResetOrderId, accepted |-> 0, dirty |-> FALSE,
               route |-> "none", prev |-> "none",
               partials |-> {}, synced |-> TRUE]
    /\ accepted = 0
    /\ received = 0
    /\ std_trading_pairs = EmptyDict
    /\ exchange_to_std = EmptyDict
    /\ loaded = {}
    /\ reg = NoCall

\* a session on two pairs and two channels, without per-channel config
Init == Construct(NoConfig, Pairs, Channels)

\* message_handler on the book message msg (table orderBookL2)
BookMsg(msg) ==
    LET timestamp == received + 1
    IN  \E r \in {BookHandler(partial_received, l2_book, order_id, msg, timestamp)} :
          /\ partial_received' = r.partial
          /\ l2_book' = r.book
          /\ order_id' = r.index
          /\ callbacks' = r.calls
          /\ last' = [op |-> "book", msg |-> msg, timestamp |-> timestamp,
                      result |-> r.result, applied |-> r.applied,
                      partial |-> partial_received, book |-> l2_book,
                      index |-> order_id, accepted |-> accepted, dirty |-> FALSE,
                      route |-> "book", prev |-> last.op,
                      partials |-> partials, synced |-> (replica = l2_book)]
          /\ partials' = IF msg.action = "partial" THEN partials \cup Named(msg.data)
                         ELSE partials
          /\ replica' = Consume(replica, r.calls)
          /\ accepted' = IF r.result = "discarded" THEN accepted
                         ELSE IF accepted = 0 THEN 1 ELSE 2
          /\ received' = received + 1
          /\ UNCHANGED <<sent, config, pairs, channels, regvars>>

\* a well-formed book message; messages arrive only on a connection that
\* has subscribed
Book ==
    /\ sent # <<>>
    /\ received < MaxMsgs
    /\ \E action \in BookActions :
       \E data \in DataFor(action) :
          BookMsg([action |-> action, data |-> data])

\* a book message with an entry that lacks a required field
BookMalformed ==
    /\ sent # <<>>
    /\ received < MaxMsgs
    /\ \E action \in BookActions \ {"amend"} :
       \E data \in MalformedDataFor(action) :
          BookMsg([action |-> action, data |-> data])

\* message_handler on a message that is only logged
Admin ==
    /\ sent # <<>>
    /\ received < MaxMsgs
    /\ \E msg \in OtherMsgs :
       \E r \in {Logged(partial_received, l2_book, order_id, msg)} :
          /\ Route(msg) \in {"info", "subscribe_ok", "subscribe_failed", "error", "unhandled"}
          /\ partial_received' = r.partial
          /\ l2_book' = r.book
          /\ order_id' = r.index
          /\ callbacks' = r.calls
          /\ last' = [op |-> "admin", msg |-> NoMsg, timestamp |-> received + 1,
                      result |-> r.result, applied |-> 0,
                      partial |-> partial_received, book |-> l2_book,
                      index |-> order_id, accepted |-> accepted, dirty |-> FALSE,
                      route |-> Route(msg), prev |-> last.op,
                      partials |-> partials, synced |-> (replica = l2_book)]
          /\ replica' = Consume(replica, r.calls)
          /\ received' = received + 1
          /\ UNCHANGED <<sent, accepted, config, pairs, channels, partials, regvars>>

\* subscribe: _reset, then one subscribe request with every token. Of the
\* state before it, last keeps the flag and whether anything was held.
Subscribe ==
    /\ \E r \in {Reset(partial_received, l2_book, order_id)} :
          /\ partial_received' = r.partial
          /\ l2_book' = r.book
          /\ order_id' = r.index
    /\ callbacks' = <<>>
    /\ sent' = <<[op |-> "subscribe", args |-> Tokens]>>
    /\ last' = [op |-> "subscribe", msg |-> NoMsg, timestamp |-> 0, result |-> "none",
                applied |-> 0, partial |-> partial_received, book |-> ResetBook,
                index |-> ResetOrderId, accepted |-> 0,
                dirty |-> Dirty(l2_book, order_id),
                route |-> "none", prev |-> last.op,
                partials |-> partials, synced |-> (replica = l2_book)]
    /\ accepted' = 0
    /\ received' = 0
    /\ partials' = {}
    /\ replica' = ResetBook
    /\ UNCHANGED <<config, pairs, channels, regvars>>

\* a well-formed book message of one entry
BookSingle ==
    /\ sent # <<>>
    /\ received < MaxSingles
    /\ \E action \in BookActions \ {"amend"} :
       \E entry \in EntriesFor(action) :
          BookMsg([action |-> action, data |-> <<entry>>])

\* load_exchange_pair_mapping(exchange), once per exchange, with what
\* gen_pairs returns for it
Load ==
    \E exchange \in Exchanges \ loaded : \E mapping \in Mappings :
    \E r \in {LoadExchangePairMapping(std_trading_pairs, exchange_to_std, exchange, mapping)} :
        /\ std_trading_pairs' = r.std
        /\ exchange_to_std' = r.rev
        /\ loaded' = loaded \cup {exchange}
        /\ reg' = [NoCall EXCEPT !.fn = "load_exchange_pair_mapping",
                                 !.exchange = exchange]
        /\ UNCHANGED engine

\* pair_std_to_exchange(pair, exchange)
StdToExchange ==
    /\ reg.n < MaxCalls
    /\ \E pair \in Strings : \E exchange \in Exchanges :
       \E r \in {PairStdToExchange(std_trading_pairs, pair, exchange)} :
           /\ reg' = [NoCall EXCEPT !.fn = "pair_std_to_exchange", !.pair = pair,
                                    !.exchange = exchange, !.outcome = r.outcome,
                                    !.value = r.value, !.n = reg.n + 1]
           /\ UNCHANGED <<engine, std_trading_pairs, exchange_to_std, loaded>>

\* pair_exchange_to_std(pair)
ExchangeToStd ==
    /\ reg.n < MaxCalls
    /\ \E pair \in Strings :
       \E r \in {PairExchangeToStd(exchange_to_std, pair)} :
           /\ reg' = [NoCall EXCEPT !.fn = "pair_exchange_to_std", !.pair = pair,
                                    !.outcome = r.outcome, !.value = r.value,
                                    !.n = reg.n + 1]
           /\ UNCHANGED <<engine, std_trading_pairs, exchange_to_std, loaded>>

\* feed_to_exchange(exchange, feed)
FeedToExchangeCall ==
    /\ reg.n < MaxCalls
    /\ \E exchange \in Exchanges : \E feed \in Feeds :
       \E r \in {FeedToExchange(std_trading_pairs, exchange, feed)} :
           /\ reg' = [NoCall EXCEPT !.fn = "feed_to_exchange", !.feed = feed,
                                    !.exchange = exchange, !.outcome = r.outcome,
                                    !.value = r.value, !.n = reg.n + 1]
           /\ UNCHANGED <<engine, std_trading_pairs, exchange_to_std, loaded>>

NextRegistry == Load \/ StdToExchange \/ ExchangeToStd \/ FeedToExchangeCall

\* the registry alone, under a session that stays as constructed
SpecRegistry == Init /\ [][NextRegistry]_vars

Next == Book \/ BookMalformed \/ Admin \/ Subscribe

Spec == Init /\ [][Next]_vars

\* longer sessions of single-entry messages
NextSession == BookSingle \/ Subscribe

SpecSession == Init /\ [][NextSession]_vars

\* a session constructed with any selection of pairs and channels, or with
\* a per-channel configuration
InitConfig ==
    \E cfg \in Configs : \E ps \in Lists(Symbols) : \E chs \in Lists(Range(Channels)) :
        Construct(cfg, ps, chs)

\* the first message of a connection, a partial of one entry
Snapshot ==
    /\ sent # <<>>
    /\ received = 0
    /\ \E entry \in EntriesFor("partial") :
          BookMsg([action |-> "partial", data |-> <<entry>>])

NextConfig == Snapshot \/ Subscribe

SpecConfig == InitConfig /\ [][NextConfig]_vars

\* ================================================================= claims
SessionPairs == Range(pairs)

\* the last operation was a book message that passed the partial gate
Processed == last.op = "book" /\ last.result \in {"emitted", "raised"}

\* the state is the one the last operation found
Untouched ==
    /\ l2_book = last.book
    /\ order_id = last.index
    /\ partial_received = last.partial

AllEmpty ==
    \A p \in SessionPairs : \A s \in Sides :
        l2_book[p][s] = EmptyDict /\ order_id[p][s] = EmptyDict

InSeq(x, seq) == \E k \in DOMAIN seq : seq[k] = x

\* entry i of the last message has every field its action requires
HasFields(i) == Required(last.msg.action) \subseteq DOMAIN last.msg.data[i]

WellFormed == \A i \in DOMAIN last.msg.data : HasFields(i)

\* C1: after messages applied without fault, every (pair, side, order id)
\* of the index maps to a price that is a level of that pair and side.
C1_IndexedPriceIsLevel ==
    last.result # "raised" =>
        \A p \in SessionPairs : \A s \in Sides :
            \A oid \in DOMAIN order_id[p][s] :
                order_id[p][s][oid] \in DOMAIN l2_book[p][s]

\* C2: after messages applied without fault, every level of a pair and
\* side is the mapped price of at least one order id of that pair and side.
C2_NoOrphanLevel ==
    last.result # "raised" =>
        \A p \in SessionPairs : \A s \in Sides :
            \A price \in DOMAIN l2_book[p][s] :
                \E oid \in DOMAIN order_id[p][s] : order_id[p][s][oid] = price

\* C3: while partial_received is false, a book message whose action is not
\* partial changes neither the books, the index nor the flag, and makes no
\* emission.
C3_DiscardBeforePartial ==
    (last.op = "book" /\ ~last.partial /\ last.msg.action # "partial") =>
        Untouched /\ callbacks = <<>>

\* an insert carrying an entry arrived before any partial and was dropped
C3_Witness ==
    /\ last.op = "book" /\ ~last.partial
    /\ last.msg.action = "insert" /\ Len(last.msg.data) = MaxData
    /\ last.result = "discarded"

\* an entry of the last message names an order id the index did not hold
UnknownId(i) ==
    LET e == last.msg.data[i]
    IN  e.id \notin DOMAIN last.index[e.symbol][SideOf(e)]

\* C4: an accepted update or delete with an entry whose order id the index
\* does not hold raises, and leaves the books and the index as they were.
C4_UnknownIdRaisesUnchanged ==
    (/\ last.op = "book" /\ last.partial /\ WellFormed
     /\ last.msg.action \in {"update", "delete"}
     /\ \E i \in DOMAIN last.msg.data : UnknownId(i)) =>
        /\ last.result = "raised"
        /\ l2_book = last.book
        /\ order_id = last.index

\* C5: an emission is forced exactly when its message is the first one
\* accepted since the last reset.
C5_ForcedIffFirstAccepted ==
    \A k \in DOMAIN callbacks :
        callbacks[k].forced <=> (last.accepted = 0)

\* a second partial of the same epoch was emitted
C5_Witness ==
    /\ last.op = "book" /\ last.msg.action = "partial"
    /\ last.accepted = 1 /\ last.partial
    /\ Len(callbacks) = 1 /\ ~callbacks[1].forced

\* C6: a processed message that touched a level makes exactly one emission
\* (pair, L2_BOOK, forced, delta, timestamp); a discarded message or one
\* with an unknown action makes none and changes no state.
C6_OneEmissionPerProcessed ==
    /\ (Processed /\ WellFormed /\ last.applied > 0) =>
          /\ Len(callbacks) = 1
          /\ callbacks[1].channel = L2_BOOK
          /\ callbacks[1].timestamp = last.timestamp
          /\ callbacks[1].pair \in {last.msg.data[i].symbol : i \in DOMAIN last.msg.data}
          /\ Len(callbacks[1].delta[BID]) + Len(callbacks[1].delta[ASK]) = Len(last.msg.data)
    /\ (last.op = "book" /\ last.result \in {"discarded", "unexpected"}) =>
          /\ callbacks = <<>>
          /\ Untouched

\* C7: a reset leaves the flag false and every book side and index of the
\* session empty; until a message is accepted nothing is applied, and the
\* first accepted message is a partial.
C7_ResetClears ==
    /\ last.op = "subscribe" => (~partial_received /\ AllEmpty)
    /\ accepted = 0 => (~partial_received /\ AllEmpty)
    /\ (last.op = "book" /\ last.accepted = 0 /\ accepted # 0) =>
          last.msg.action = "partial"

\* a resubscription of a session that held levels and had seen its partial
C7_Witness ==
    /\ last.op = "subscribe" /\ last.partial /\ last.dirty
    /\ ~partial_received /\ AllEmpty

\* the price the index held for entry i of the last message
IndexedPrice(i) ==
    LET e == last.msg.data[i]
    IN  last.index[e.symbol][SideOf(e)][e.id]

\* entries i and j of the last (update) message address the same level
SameLevel(i, j) ==
    LET a == last.msg.data[i]
        b == last.msg.data[j]
    IN  /\ a.symbol = b.symbol /\ SideOf(a) = SideOf(b)
        /\ IndexedPrice(i) = IndexedPrice(j)

\* C8: an applied update entry sets the level at the indexed price to the
\* new size (the last such entry of the message wins), the index and every
\* other level stay as they were, and the emission is not forced and holds
\* (indexed price, new size) on that side.
C8_UpdateSetsSize ==
    (Processed /\ last.msg.action = "update") =>
        LET done == 1..last.applied
        IN  /\ order_id = last.index
            /\ \A i \in done :
                 LET e == last.msg.data[i]
                     p == e.symbol
                     s == SideOf(e)
                 IN  /\ IndexedPrice(i) \in DOMAIN l2_book[p][s]
                     /\ (\A j \in done : (j > i) => ~SameLevel(i, j)) =>
                            l2_book[p][s][IndexedPrice(i)] = e.size
                     /\ \A k \in DOMAIN callbacks :
                            /\ ~callbacks[k].forced
                            /\ InSeq(<<IndexedPrice(i), e.size>>, callbacks[k].delta[s])
            /\ \A p \in SessionPairs : \A s \in Sides :
                 /\ DOMAIN last.book[p][s] \subseteq DOMAIN l2_book[p][s]
                 /\ \A price \in DOMAIN l2_book[p][s] :
                      \/ /\ price \in DOMAIN last.book[p][s]
                         /\ l2_book[p][s][price] = last.book[p][s][price]
                      \/ \E i \in done :
                            /\ last.msg.data[i].symbol = p
                            /\ SideOf(last.msg.data[i]) = s
                            /\ IndexedPrice(i) = price

\* partial id 1 at 100 size 5, then update id 1 size 3: the bid book is {100: 3}
C8_Witness ==
    /\ last.op = "book" /\ last.msg.action = "update" /\ last.result = "emitted"
    /\ last.msg.data = <<[symbol |-> "XBTUSD", side |-> "Buy", id |-> 1, size |-> 3]>>
    /\ last.book["XBTUSD"][BID] = [x \in {100} |-> 5]
    /\ l2_book["XBTUSD"][BID] = [x \in {100} |-> 3]
    /\ callbacks[1].delta[BID] = <<<<100, 3>>>>

\* C9: an accepted delete whose entries all name order ids of the index,
\* each once, removes each index entry and the level at its price, and the
\* emitted delta records (price, 0) on that side.
C9_DeleteRemovesLevel ==
    (/\ last.op = "book" /\ last.partial /\ last.msg.action = "delete"
     /\ WellFormed
     /\ \A i \in DOMAIN last.msg.data : ~UnknownId(i)
     /\ \A i, j \in DOMAIN last.msg.data :
            (last.msg.data[i] = last.msg.data[j]) => i = j) =>
        \A i \in DOMAIN last.msg.data :
            LET e == last.msg.data[i]
                p == e.symbol
                s == SideOf(e)
            IN  /\ e.id \notin DOMAIN order_id[p][s]
                /\ IndexedPrice(i) \notin DOMAIN l2_book[p][s]
                /\ Len(callbacks) = 1
                /\ InSeq(<<IndexedPrice(i), 0>>, callbacks[1].delta[s])

\* C10: after a partial has been applied, the book and the index of every
\* pair it names hold exactly the levels and the order ids it carried.
C10_PartialReplaces ==
    (last.op = "book" /\ last.msg.action = "partial" /\ last.result = "emitted") =>
        \A i \in DOMAIN last.msg.data :
            LET p == last.msg.data[i].symbol
                mine(s) == {j \in DOMAIN last.msg.data :
                               /\ last.msg.data[j].symbol = p
                               /\ SideOf(last.msg.data[j]) = s}
            IN  \A s \in Sides :
                  /\ DOMAIN l2_book[p][s] = {last.msg.data[j].price : j \in mine(s)}
                  /\ DOMAIN order_id[p][s] = {last.msg.data[j].id : j \in mine(s)}

\* C11: an accepted book message with an entry that lacks a required field
\* raises, and none of its entries is applied to the books or the index.
C11_MalformedRaisesUnapplied ==
    (/\ last.op = "book" /\ last.result # "discarded"
     /\ KnownAction(last.msg.action)
     /\ ~WellFormed) =>
        /\ last.result = "raised"
        /\ l2_book = last.book
        /\ order_id = last.index

\* C16: an informational, subscribe-acknowledgement (successful or failed)
\* or error message, or one of an unrecognized table, is only logged: no
\* emission, the books, the index and the flag unchanged; and the book
\* message after it is handled as ever (a well-formed partial is emitted).
C16_AdminIsLoggedOnly ==
    /\ last.op = "admin" =>
          /\ last.result = "logged"
          /\ callbacks = <<>>
          /\ Untouched
    /\ (/\ last.op = "book" /\ last.prev = "admin"
        /\ last.msg.action = "partial" /\ WellFormed) =>
          /\ last.result = "emitted"
          /\ Len(callbacks) = 1

\* a failed subscribe acknowledgement reached a session that held levels
C16_Witness ==
    /\ last.op = "admin" /\ last.route = "subscribe_failed"
    /\ partial_received /\ Dirty(l2_book, order_id)

\* entry i of the last message finds what its action needs: an update its
\* order id in the index, a delete also the level, not yet deleted by an
\* earlier entry
Appliable(i) ==
    \/ last.msg.action = "insert"
    \/ last.msg.action = "update" /\ ~UnknownId(i)
    \/ /\ last.msg.action = "delete" /\ ~UnknownId(i)
       /\ IndexedPrice(i) \in DOMAIN last.book[last.msg.data[i].symbol][SideOf(last.msg.data[i])]
       /\ \A j \in 1..(i - 1) : ~(~UnknownId(j) /\ SameLevel(j, i))

\* C18: once the flag is set, an insert, update or delete naming only pairs
\* for which no partial has arrived since the last reset is not discarded:
\* it is applied and emitted like any other (it faults only where an entry
\* does not find its order id or level).
C18_FlagIsSessionWide ==
    (/\ last.op = "book" /\ last.partial /\ WellFormed
     /\ last.msg.action \in {"insert", "update", "delete"}
     /\ Named(last.msg.data) \cap last.partials = {}) =>
        /\ last.result # "discarded"
        /\ (\A i \in DOMAIN last.msg.data : Appliable(i)) =>
              /\ last.result = "emitted"
              /\ last.applied = Len(last.msg.data)
              /\ Len(callbacks) = 1
              /\ Named(last.msg.data) # {} => callbacks[1].pair \in Named(last.msg.data)
              /\ Len(callbacks[1].delta[BID]) + Len(callbacks[1].delta[ASK])
                    = Len(last.msg.data)

\* after a partial for XBTUSD only, an update changed a level of ETHUSD
C18_Witness ==
    /\ last.op = "book" /\ last.msg.action = "update" /\ last.result = "emitted"
    /\ last.partials = {"XBTUSD"}
    /\ Named(last.msg.data) = {"ETHUSD"}
    /\ l2_book["ETHUSD"] # last.book["ETHUSD"]
    /\ Len(callbacks) = 1 /\ callbacks[1].pair = "ETHUSD"

\* C19: when the consumer's books equalled the engine's before a message
\* that names one pair and is emitted, the consumer's book of that pair
\* equals the engine's after the emitted delta is applied, side by side,
\* level by level.
C19_ReplicaEqualsBook ==
    (/\ last.op = "book" /\ last.result = "emitted" /\ last.synced
     /\ \E p \in SessionPairs : Named(last.msg.data) = {p}) =>
        \A k \in DOMAIN callbacks :
            replica[callbacks[k].pair] = l2_book[callbacks[k].pair]

\* the price of the level entry i of the last message addresses
EntryPrice(i) ==
    IF last.msg.action \in {"partial", "insert"} THEN last.msg.data[i].price
    ELSE IndexedPrice(i)

\* C20: the pair of every emission is a subscribed pair, and every level of
\* its delta stems from an entry of the message that names that pair, that
\* side and that price.
C20_EmissionNamesItsPair ==
    last.op = "book" =>
        \A k \in DOMAIN callbacks :
            /\ callbacks[k].pair \in SessionPairs
            /\ \A s \in Sides : \A n \in DOMAIN callbacks[k].delta[s] :
                  \E i \in DOMAIN last.msg.data :
                      /\ last.msg.data[i].symbol = callbacks[k].pair
                      /\ SideOf(last.msg.data[i]) = s
                      /\ EntryPrice(i) = callbacks[k].delta[s][n][1]

\* how often x occurs in seq
Count(x, seq) == Cardinality({k \in DOMAIN seq : seq[k] = x})

\* the token <<c, p>> is configured: by the per-channel configuration when
\* there is one, by the channels and the pairs of the session otherwise
Configured(c, p) ==
    IF config # NoConfig
    THEN \E i \in DOMAIN config : config[i].channel = c /\ p \in Range(config[i].pairs)
    ELSE c \in Range(channels) /\ p \in Range(pairs)

\* C17: a subscribe leaves the engine reset and has sent one subscribe
\* request whose token list holds every configured token once and no other.
C17_SubscribeSendsEveryToken ==
    last.op = "subscribe" =>
        /\ ~partial_received /\ AllEmpty
        /\ Len(sent) = 1 /\ sent[1].op = "subscribe"
        /\ \A c \in Range(Channels) : \A p \in Symbols :
              Count(<<c, p>>, sent[1].args) = (IF Configured(c, p) THEN 1 ELSE 0)
        /\ \A k \in DOMAIN sent[1].args :
              Configured(sent[1].args[k][1], sent[1].args[k][2])

\* a resubscription, with a per-channel configuration of three tokens, of a
\* session that held levels
C17_Witness ==
    /\ last.op = "subscribe" /\ last.dirty
    /\ config = <<[channel |-> "orderBookL2", pairs |-> <<"XBTUSD", "ETHUSD">>],
                  [channel |-> "trade", pairs |-> <<"XBTUSD">>]>>
    /\ sent[1].args = <<<<"orderBookL2", "XBTUSD">>, <<"orderBookL2", "ETHUSD">>,
                        <<"trade", "XBTUSD">>>>

\* the canonical pair is registered for the exchange
Registered(pair, exchange) ==
    /\ pair \in DOMAIN std_trading_pairs
    /\ exchange \in DOMAIN std_trading_pairs[pair]

\* C12: for a loaded non-dynamic exchange E and a canonical pair P
\* registered for E, pair_std_to_exchange(P, E) returns a native pair that
\* pair_exchange_to_std takes back to P, whatever else was loaded.
C12_RoundTrip ==
    (/\ reg.fn = "pair_std_to_exchange"
     /\ reg.exchange \in loaded \ DynamicExchanges
     /\ Registered(reg.pair, reg.exchange)) =>
        /\ reg.outcome = "return"
        /\ PairExchangeToStd(exchange_to_std, reg.value) = Return(reg.pair)

C14_PairToCanonicalTotal ==
    reg.fn = "pair_exchange_to_std" =>
        IF reg.pair \in DOMAIN exchange_to_std
        THEN reg.outcome = "return" /\ reg.value = exchange_to_std[reg.pair]
        ELSE IF reg.pair # <<>> /\ reg.pair[1] = "f"
        THEN reg.outcome = "return" /\ reg.value = Tail(reg.pair)
        ELSE reg.outcome = "none"

\* C15: feed_to_exchange raises UnsupportedDataFeed where the table entry
\* is UNSUPPORTED and never returns UNSUPPORTED from the table; for Poloniex
\* a feed that is not in the table is translated as a pair: the registered
\* native pair, or UnsupportedTradingPair.
C15_ChannelToExchange ==
    reg.fn = "feed_to_exchange" =>
        /\ (/\ InFeedMap(reg.feed)
            /\ reg.exchange \in DOMAIN FeedToExchangeMap[reg.feed.name]
            /\ FeedToExchangeMap[reg.feed.name][reg.exchange] = UNSUPPORTED) =>
               reg.outcome = "UnsupportedDataFeed"
        /\ (InFeedMap(reg.feed) /\ reg.outcome = "return") =>
               /\ reg.value # UNSUPPORTED
               /\ reg.value = FeedToExchangeMap[reg.feed.name][reg.exchange]
        /\ (reg.exchange = POLONIEX /\ ~InFeedMap(reg.feed)) =>
               IF Registered(reg.feed.name, POLONIEX)
               THEN /\ reg.outcome = "return"
                    /\ reg.value = std_trading_pairs[reg.feed.name][POLONIEX]
               ELSE reg.outcome = "UnsupportedTradingPair"

\* the L3 book of BitMEX was asked for and refused
C15_Witness ==
    /\ reg.fn = "feed_to_exchange" /\ reg.exchange = BITMEX
    /\ reg.feed = [kind |-> "channel", name |-> L3_BOOK]
    /\ reg.outcome = "UnsupportedDataFeed"

====
